---- MODULE Spec2Model ----
(***************************************************************************)
(* A model of alidistlint: the recipe splitter (common.split_files), the   *)
(* location-tracking YAML loader and its position resolver                 *)
(* (common.TrackedLocationLoader, common.position_of_key), the key-order   *)
(* checker (headerlint.check_keys_order) and the concurrent orchestration  *)
(* of the checkers (run.checker_wrapper, run.run_with_args).               *)
(*                                                                         *)
(* Bytes are sequences of one-character strings.  Python's None is the     *)
(* empty tuple and a present optional value x is <<x>>.  A Python dict is  *)
(* a sequence of [k, v] entries in insertion order.                        *)
(***************************************************************************)
EXTENDS Integers, Sequences, FiniteSets, TLC

VARIABLES
    pc,             \* position of the main thread
    input_files,    \* args.recipes: the opened input files
    errors,         \* split_files: the errors list
    header_parts,   \* split_files: dict temp name -> YAMLFilePart
    script_parts,   \* split_files: dict temp name -> ScriptFilePart
    tagged_data,    \* headerlint: the header with its location trackers
    pure_data,      \* headerlint: the header without them
    lint_errors,    \* the errors a checker or one of its helpers yields
    lint_raised,    \* the exception that ended it, "" when it returned
    part_offsets,   \* the line and column offsets of the part checked
    validator_errors, \* validator.errors for each header validated
    object_path,    \* the path handed to position_of_key
    handed_paths,   \* history: the paths emit_validation_errors handed to it
    resolved,       \* what position_of_key answers for it
    run_functions,  \* run_with_args: the enabled checkers
    checker_runs,   \* what each checker yields, and whether it then raises
    wpc,            \* position of each worker in checker_wrapper
    wnext,          \* how many errors each worker has taken from its checker
    errors_queue,   \* the queue from the workers to the main thread
    num_sentinels,  \* run_with_args: the sentinels counted
    have_error,     \* run_with_args: an error-level message was seen
    exit_status,    \* what run_with_args returns, None before
    dequeued,       \* history: the errors the main thread took off the queue
    sentinels_put   \* history: the sentinels each worker has put

split_vars == <<errors, header_parts, script_parts>>
header_vars == <<tagged_data, pure_data, lint_errors, lint_raised, part_offsets, validator_errors,
                 handed_paths, object_path, resolved>>
worker_vars == <<wpc, wnext, sentinels_put>>
consumer_vars == <<num_sentinels, have_error, exit_status, dequeued>>
run_vars == <<run_functions, checker_runs, worker_vars, errors_queue, consumer_vars>>
vars == <<pc, input_files, split_vars, header_vars, run_vars>>

----------------------------------------------------------------------------
(* Bounds of the model. *)

\* longest raw input file, in bytes
MaxLen == 7
\* most entries of a header
MaxKeys == 3
\* deepest indentation of the top-level keys of a header
MaxIndent == 1
\* most checkers enabled in a run
MaxCheckers == 2
\* the largest line offset and column offset of a part handed to a checker
MaxOffset == 1
\* most input files of a run over several files
MaxFiles == 2
\* most lines of a script
MaxLines == 2

----------------------------------------------------------------------------
(* Python built-ins on bytes and sequences, as the code uses them. *)

None == <<>>
Some(x) == <<x>>

NL == "\n"
CR == "\r"
DASH == "-"

Min(a, b) == IF a < b THEN a ELSE b

\* s[a:b] for 0 <= a, with the clamping of Python slices
Slice(s, a, b) == SubSeq(s, a + 1, Min(b, Len(s)))

\* s[a:]
SliceFrom(s, a) == SubSeq(s, a + 1, Len(s))

\* s.startswith(pat) at offset i (0-based)
MatchAt(s, pat, i) ==
    /\ i + Len(pat) <= Len(s)
    /\ \A j \in 1..Len(pat) : s[i + j] = pat[j]

\* s.find(pat): the lowest 0-based index of pat in s, -1 when absent
Find(s, pat) ==
    LET hits == {i \in 0..Len(s) : MatchAt(s, pat, i)}
    IN  IF hits = {} THEN -1 ELSE CHOOSE i \in hits : \A j \in hits : i <= j

\* pat in s
Contains(s, pat) == Find(s, pat) # -1

\* s.count(ch) for a single byte ch
Count(s, ch) == Cardinality({i \in 1..Len(s) : s[i] = ch})

\* the elements of a finite set of numbers, in ascending order
Sorted(S) ==
    [n \in 1..Cardinality(S) |->
        CHOOSE x \in S : Cardinality({y \in S : y < x}) = n - 1]

\* the 1-based index at which s has a line end at or after a, Len(s) + 1
\* when none follows
LineEnd(s, a) ==
    IF \E b \in a..Len(s) : s[b] \in {NL, CR}
    THEN CHOOSE b \in a..Len(s) :
            s[b] \in {NL, CR} /\ \A c \in a..(b - 1) : s[c] \notin {NL, CR}
    ELSE Len(s) + 1

\* bytes.splitlines(): lines end at "\n", "\r" or "\r\n"; the line ends are
\* dropped and a trailing line end opens no further line
SplitLines(s) ==
    LET last_of_end == {i \in 1..Len(s) :
                           \/ s[i] = NL
                           \/ s[i] = CR /\ ~(i < Len(s) /\ s[i + 1] = NL)}
        starts == Sorted({a \in {1} \cup {e + 1 : e \in last_of_end} : a <= Len(s)})
    IN  [n \in 1..Len(starts) |-> SubSeq(s, starts[n], LineEnd(s, starts[n]) - 1)]

\* the concatenation of the sequences of a sequence
RECURSIVE FlattenFrom(_, _)
FlattenFrom(seqs, i) ==
    IF i > Len(seqs) THEN <<>> ELSE seqs[i] \o FlattenFrom(seqs, i + 1)
Flatten(seqs) == FlattenFrom(seqs, 1)

\* dict lookups and updates on sequences of [k, v] entries
DictHas(d, key) == \E i \in 1..Len(d) : d[i].k = key
DictGet(d, key) == d[CHOOSE i \in 1..Len(d) : d[i].k = key].v
DictKeys(d) == [i \in 1..Len(d) |-> d[i].k]
\* the dict that the assignments d[k] = v of puts build, made in their order:
\* a key stands where it was first put and holds the value put last
dict_of(puts) ==
    LET firsts == SelectSeq([i \in 1..Len(puts) |-> i],
                            LAMBDA i : \A j \in 1..(i - 1) : puts[j].k # puts[i].k)
        last(key) == CHOOSE i \in 1..Len(puts) :
                        puts[i].k = key /\ \A j \in (i + 1)..Len(puts) : puts[j].k # key
    IN  [n \in 1..Len(firsts) |->
            [k |-> puts[firsts[n]].k, v |-> puts[last(puts[firsts[n]].k)].v]]

----------------------------------------------------------------------------
(* Python values.  Every value is a record of one shape: t is the Python   *)
(* type name, s the characters of a scalar, n the number of an int, items  *)
(* the elements of a list or the [k, v] entries of a dict, and line and    *)
(* column the fields of a yaml Mark.                                       *)

Value(t, s, n, items, line, column) ==
    [t |-> t, s |-> s, n |-> n, items |-> items, line |-> line, column |-> column]

PyStr(s) == Value("str", s, 0, <<>>, 0, 0)
PyInt(n) == Value("int", <<>>, n, <<>>, 0, 0)
PyFloat(s) == Value("float", s, 0, <<>>, 0, 0)
PyBool(s) == Value("bool", s, 0, <<>>, 0, 0)
PyNone == Value("NoneType", <<>>, 0, <<>>, 0, 0)
Mark(line, column) == Value("Mark", <<>>, 0, <<>>, line, column)
PyList(items) == Value("list", <<>>, 0, items, 0, 0)
PyDict(items) == Value("dict", <<>>, 0, items, 0, 0)

IsDict(v) == v.t = "dict"
IsList(v) == v.t = "list"
IsStr(v) == v.t = "str"

\* key in data, for a dict value
In(key, data) == DictHas(data.items, key)

\* seq[n] of Python: negative n counts from the end; Len(seq) + 1 marks an
\* IndexError
PyIndex(seq, n) ==
    IF 0 <= n /\ n < Len(seq) THEN n + 1
    ELSE IF n < 0 /\ 0 - n <= Len(seq) THEN Len(seq) + n + 1
    ELSE Len(seq) + 1

----------------------------------------------------------------------------
(* The nodes the YAML composer hands to the loader: a scalar, a sequence   *)
(* of nodes, or a mapping of [k, v] node pairs, each with its start mark.  *)

ScalarNode(t, s, n, line, column) ==
    [tag |-> t, s |-> s, n |-> n, value |-> <<>>, line |-> line, column |-> column]
SequenceNode(value, line, column) ==
    [tag |-> "seq", s |-> <<>>, n |-> 0, value |-> value, line |-> line, column |-> column]
MappingNode(value, line, column) ==
    [tag |-> "map", s |-> <<>>, n |-> 0, value |-> value, line |-> line, column |-> column]

start_mark(node) == Mark(node.line, node.column)

LOCATIONS == PyStr(<<"_", "l", "o", "c", "a", "t", "i", "o", "n", "s">>)

\* TrackedLocationLoader.construct_object with construct_sequence and
\* construct_mapping overridden: a sequence gets the list of its items' marks
\* appended as a last element, a mapping gets the entry '_locations' that maps
\* each constructed key to its mark
RECURSIVE construct_object(_)
construct_sequence(node) ==
    LET sequence == [i \in 1..Len(node.value) |-> construct_object(node.value[i])]
    IN  PyList(Append(sequence,
                    PyList([i \in 1..Len(node.value) |-> start_mark(node.value[i])])))

construct_mapping(node) ==
    LET n == Len(node.value)
        mapping == [i \in 1..n |-> [k |-> construct_object(node.value[i].k),
                                    v |-> construct_object(node.value[i].v)]]
        locations == [i \in 1..n |-> [k |-> construct_object(node.value[i].k),
                                      v |-> start_mark(node.value[i].k)]]
    IN  PyDict(dict_of(Append(mapping,
                              [k |-> LOCATIONS, v |-> PyDict(dict_of(locations))])))

construct_object(node) ==
    IF node.tag = "seq" THEN construct_sequence(node)
    ELSE IF node.tag = "map" THEN construct_mapping(node)
    ELSE Value(node.tag, node.s, node.n, <<>>, 0, 0)

\* TrackedLocationLoader.remove_trackers
RECURSIVE remove_trackers(_)
remove_trackers(data) ==
    IF IsDict(data)
    THEN LET kept == SelectSeq(data.items, LAMBDA e : e.k # LOCATIONS)
         IN  PyDict([i \in 1..Len(kept) |->
                     [k |-> kept[i].k, v |-> remove_trackers(kept[i].v)]])
    ELSE IF IsList(data)
    THEN LET init == SubSeq(data.items, 1, Len(data.items) - 1)
         IN  PyList([i \in 1..Len(init) |-> remove_trackers(init[i])])
    ELSE data


----------------------------------------------------------------------------
(* Text.  A Python str or bytes value the code takes apart is a sequence   *)
(* of characters; levels, fixed messages and type names are plain strings. *)

EndsWith(s, suffix) ==
    /\ Len(s) >= Len(suffix)
    /\ SubSeq(s, Len(s) - Len(suffix) + 1, Len(s)) = suffix

\* os.path.basename: what follows the last "/"
basename(path) ==
    LET slashes == {i \in 1..Len(path) : path[i] = "/"}
        last == IF slashes = {} THEN 0
                ELSE CHOOSE i \in slashes : \A j \in slashes : j <= i
    IN  SubSeq(path, last + 1, Len(path))

\* str.encode('utf-8'), for the ASCII characters of the model: one byte a
\* character, of the same code
encode(text) == text

SEPARATOR == <<"\n", "-", "-", "-", "\n">>
DASHES == <<"-", "-", "-">>
SUFFIX_RECIPE == <<"_", "r", "e", "c", "i", "p", "e">>
SUFFIX_CHECK == <<"_", "c", "h", "e", "c", "k">>
HEAD_YAML == <<".", "h", "e", "a", "d", ".", "y", "a", "m", "l">>
SCRIPT_SH == <<".", "s", "c", "r", "i", "p", "t", ".", "s", "h">>
DOT_SH == <<".", "s", "h">>
\* the header keys the code names
K_package == <<"p", "a", "c", "k", "a", "g", "e">>
K_version == <<"v", "e", "r", "s", "i", "o", "n">>
K_tag == <<"t", "a", "g">>
K_requires == <<"r", "e", "q", "u", "i", "r", "e", "s">>
K_build_requires == <<"b", "u", "i", "l", "d", "_", "r", "e", "q", "u", "i", "r", "e", "s">>
K_incremental_recipe == <<"i", "n", "c", "r", "e", "m", "e", "n", "t", "a", "l", "_", "r", "e", "c", "i", "p", "e">>
K_prefer_system_check == <<"p", "r", "e", "f", "e", "r", "_", "s", "y", "s", "t", "e", "m", "_", "c", "h", "e", "c", "k">>
K_prepend_path == <<"p", "r", "e", "p", "e", "n", "d", "_", "p", "a", "t", "h">>
K_system_requirement == <<"s", "y", "s", "t", "e", "m", "_", "r", "e", "q", "u", "i", "r", "e", "m", "e", "n", "t">>

----------------------------------------------------------------------------
(* common.Error, common.YAMLFilePart, common.ScriptFilePart *)

Error(level, message, file_name, line, column) ==
    [level |-> level, message |-> message, file_name |-> file_name,
     line |-> line, column |-> column, end_line |-> None, end_column |-> None]

ErrorSpan(level, message, file_name, line, column, end_column) ==
    [level |-> level, message |-> message, file_name |-> file_name,
     line |-> line, column |-> column, end_line |-> None,
     end_column |-> Some(end_column)]

YAMLFilePart(orig_file_name, line_offset, column_offset, content) ==
    [orig_file_name |-> orig_file_name, line_offset |-> line_offset,
     column_offset |-> column_offset, content |-> content]

ScriptFilePart(orig_file_name, line_offset, column_offset, content, key_name, is_system_requirement) ==
    [orig_file_name |-> orig_file_name, line_offset |-> line_offset,
     column_offset |-> column_offset, content |-> content,
     key_name |-> key_name, is_system_requirement |-> is_system_requirement]

----------------------------------------------------------------------------
(* common.position_of_key.  A result is [exc, line, column]: exc is "" for *)
(* a returned position and the exception's name when the call raises.      *)

Returned(line, column) == [exc |-> "", line |-> line, column |-> column]
Raised(exc) == [exc |-> exc, line |-> 0, column |-> 0]

\* obj[key] of Python, as [exc, v]
GetItem(obj, key) ==
    IF IsDict(obj)
    THEN IF In(key, obj) THEN [exc |-> "", v |-> DictGet(obj.items, key)]
         ELSE [exc |-> "KeyError", v |-> PyNone]
    ELSE IF IsList(obj) \/ IsStr(obj)
    THEN LET seq == IF IsList(obj) THEN obj.items ELSE obj.s
         IN  IF key.t # "int" THEN [exc |-> "TypeError", v |-> PyNone]
             ELSE IF PyIndex(seq, key.n) > Len(seq)
                  THEN [exc |-> "IndexError", v |-> PyNone]
             ELSE [exc |-> "",
                   v |-> IF IsList(obj) THEN seq[PyIndex(seq, key.n)]
                         ELSE PyStr(<<seq[PyIndex(seq, key.n)]>>)]
    ELSE [exc |-> "TypeError", v |-> PyNone]

\* the loop over path[:-1]
RECURSIVE Descend(_, _, _)
Descend(cur_object_parent, path, i) ==
    IF i >= Len(path) THEN [exc |-> "", v |-> cur_object_parent]
    ELSE LET got == GetItem(cur_object_parent, path[i])
         IN  IF got.exc # "" THEN got ELSE Descend(got.v, path, i + 1)

\* return mark.line + 1, mark.column + 1, for mark the outcome got of the
\* subscript; the KeyError is caught and gives the default position
position_of_mark(got) ==
    IF got.exc = "KeyError" THEN Returned(1, 0)
    ELSE IF got.exc # "" THEN Raised(got.exc)
    ELSE IF got.v.t # "Mark" THEN Raised("AttributeError")
    ELSE Returned(got.v.line + 1, got.v.column + 1)

\* the resolver taking the last entry of a position list, whatever the index
MarkOfLast(direct_parent, path) ==
    IF path = <<>> THEN Raised("IndexError")
    ELSE position_of_mark(GetItem(direct_parent,
                                  IF IsList(direct_parent) THEN PyInt(-1)
                                  ELSE path[Len(path)]))

\* mark = direct_parent[path[-1]]
MarkOf(direct_parent, path) ==
    IF path = <<>> THEN Raised("IndexError")
    ELSE position_of_mark(GetItem(direct_parent, path[Len(path)]))

\* the try block, for the outcome direct_parent of the subscript before it
position_in_direct_parent(direct_parent, path) ==
    IF direct_parent.exc # "" THEN Raised(direct_parent.exc)
    ELSE MarkOf(direct_parent.v, path)

\* the branches on the type of cur_object_parent, the outcome of the loop
position_in_parent(parent, path) ==
    IF parent.exc # "" THEN Raised(parent.exc)
    ELSE IF IsDict(parent.v)
         THEN position_in_direct_parent(GetItem(parent.v, LOCATIONS), path)
    ELSE IF IsList(parent.v)
         THEN position_in_direct_parent(GetItem(parent.v, PyInt(-1)), path)
    ELSE Raised("TypeError")

position_of_key(tagged_object, path) ==
    position_in_parent(Descend(tagged_object, path, 1), path)


----------------------------------------------------------------------------
(* common.parse_yaml_header_tagged and common.split_files.                 *)
(*                                                                         *)
(* An input file is [name, data, yaml]: its name as given on the command   *)
(* line, its bytes, and what yaml.load answers for its header text: the    *)
(* YAML parser is outside the program, so its answer comes with the input. *)
(* yaml is [kind, node, mark]: kind "node" with the composed document,     *)
(* "MarkedYAMLError" with the optional problem mark, or "YAMLError".       *)

NoError == Error("", "", <<>>, 0, 0)

\* yaml.load(yaml_text, TrackedLocationLoader)
yaml_load(input_file) ==
    IF input_file.yaml.kind = "node"
    THEN [exc |-> "", v |-> construct_object(input_file.yaml.node), mark |-> None]
    ELSE [exc |-> input_file.yaml.kind, v |-> PyNone, mark |-> input_file.yaml.mark]

\* lines 148-163, for the outcome loaded of yaml.load
parse_loaded(loaded, orig_file_name, line_offset, column_offset) ==
    IF loaded.exc = "MarkedYAMLError"
    THEN [is_error |-> TRUE, value |-> PyNone,
          error |-> Error("error", "YAML parse error [ali:parse]", orig_file_name,
                          IF loaded.mark = None THEN 1 ELSE loaded.mark[1].line,
                          IF loaded.mark = None THEN 0 ELSE loaded.mark[1].column)]
    ELSE IF loaded.exc = "YAMLError"
    THEN [is_error |-> TRUE, value |-> PyNone,
          error |-> Error("error", "unknown YAML parse error [ali:parse]",
                          orig_file_name, line_offset + 1, column_offset)]
    ELSE IF ~IsDict(loaded.v)
    THEN [is_error |-> TRUE, value |-> PyNone,
          error |-> Error("error",
                          "expected YAML header to be a dictionary; got a "
                              \o loaded.v.t \o " instead [ali:parse]",
                          orig_file_name, line_offset + 1, column_offset)]
    ELSE [is_error |-> FALSE, error |-> NoError, value |-> loaded.v]

\* the result is [is_error, error, value]: an Error, or the parsed dict
parse_yaml_header_tagged(yaml_text, input_file, line_offset, column_offset) ==
    IF yaml_text = <<>>
    THEN [is_error |-> TRUE, value |-> PyNone,
          error |-> Error("error",
                          "metadata not found or empty (is the '\\n---\\n' separator present?) [ali:empty]",
                          input_file.name, line_offset + 1, column_offset)]
    ELSE parse_loaded(yaml_load(input_file), input_file.name, line_offset, column_offset)

\* line 212: the main script, what follows the separator line
main_script(recipe, separator_position) == SliceFrom(recipe, separator_position + 4)

\* the line offset without the separator line
main_line_offset_of_header(yaml_text) == Count(yaml_text, NL)

\* line 216: the main script's line offset, with 1 added for the separator line
main_line_offset(yaml_text) == Count(yaml_text, NL) + 1

\* the offsets without the change from positions to offsets
recipe_offsets_of_position(pos) ==
    [line_offset |-> pos.line + 1, column_offset |-> pos.column + 2]

\* lines 229-234: the offsets of an embedded script from its key's position
recipe_offsets(pos) ==
    [line_offset |-> pos.line + 1 - 1, column_offset |-> pos.column + 2 - 1]

\* lines 187-194: the error for a line that holds "---" first at dashes_pos
dash_error(file_name, lineno, dashes_pos) ==
    IF dashes_pos # -1
    THEN <<ErrorSpan("error",
                     "found \"---\" in YAML header; this prevents aliBuild from parsing this recipe [ali:parse]",
                     file_name, lineno + 1, dashes_pos + 1, dashes_pos + 4)>>
    ELSE <<>>

\* lines 186-194: one error for each header line that holds "---", at the
\* first "---" of the line; lineno counts from 0
DashErrors(lines, file_name) ==
    Flatten([n \in 1..Len(lines) |-> dash_error(file_name, n - 1, Find(lines[n], DASHES))])

\* lines 223-248: what the header entry recipe_key: recipe adds, as
\* [errors, script_puts]; offsets are those of lines 229-234
EmbeddedRecipe(recipe_key, recipe, offsets, input_file, orig_basename, is_system_requirement) ==
    IF ~IsStr(recipe_key) THEN [errors |-> <<>>, script_puts |-> <<>>]
    ELSE IF ~(EndsWith(recipe_key.s, SUFFIX_RECIPE)
              \/ EndsWith(recipe_key.s, SUFFIX_CHECK))
    THEN [errors |-> <<>>, script_puts |-> <<>>]
    ELSE IF ~IsStr(recipe)
    THEN [errors |-> <<Error("error",
                             "script must be a string, not a " \o recipe.t
                                 \o " [ali:script-type]",
                             input_file.name, offsets.line_offset,
                             offsets.column_offset)>>,
          script_puts |-> <<>>]
    ELSE [errors |-> <<>>,
          script_puts |->
              <<[k |-> orig_basename \o <<".">> \o recipe_key.s \o DOT_SH,
                 v |-> ScriptFilePart(input_file.name, offsets.line_offset,
                                      offsets.column_offset, encode(recipe.s),
                                      Some(recipe_key.s), is_system_requirement)]>>]

\* the loop of lines 223-248 over the entries of the parsed header
EmbeddedRecipes(parsed_yaml, input_file, orig_basename, is_system_requirement) ==
    IF parsed_yaml = PyNone THEN <<>>
    ELSE [i \in 1..Len(parsed_yaml.items) |->
            EmbeddedRecipe(parsed_yaml.items[i].k, parsed_yaml.items[i].v,
                           recipe_offsets(position_of_key(parsed_yaml,
                                                          <<parsed_yaml.items[i].k>>)),
                           input_file, orig_basename, is_system_requirement)]

\* lines 185-194
dash_errors(yaml_text, file_name) ==
    IF Contains(yaml_text, DASHES)
    THEN DashErrors(SplitLines(yaml_text), file_name)
    ELSE <<>>

\* lines 207-208
system_requirement_in(parsed_yaml) ==
    parsed_yaml # PyNone /\ In(PyStr(K_system_requirement), parsed_yaml)

\* lines 185-248 of a pass, for the header text, the outcome of parsing it
\* and the embedded scripts
SplitParts(input_file, orig_basename, separator_position, yaml_text, parsed, embedded) ==
    [errors |-> dash_errors(yaml_text, input_file.name)
                    \o (IF parsed.is_error THEN <<parsed.error>> ELSE <<>>)
                    \o Flatten([i \in 1..Len(embedded) |-> embedded[i].errors]),
     header_puts |-> <<[k |-> orig_basename \o HEAD_YAML,
                        v |-> YAMLFilePart(input_file.name, 0, 0, parsed.value)]>>,
     script_puts |-> <<[k |-> orig_basename \o SCRIPT_SH,
                        v |-> ScriptFilePart(input_file.name,
                                             main_line_offset(yaml_text), 0,
                                             main_script(input_file.data,
                                                         separator_position),
                                             None, system_requirement_in(parsed.value))]>>
                         \o Flatten([i \in 1..Len(embedded) |-> embedded[i].script_puts])]

\* lines 196-218, for the outcome parsed of parse_yaml_header_tagged;
\* parsed.value is parsed_yaml, None after an error
SplitParsed(input_file, orig_basename, separator_position, yaml_text, parsed) ==
    SplitParts(input_file, orig_basename, separator_position, yaml_text, parsed,
               EmbeddedRecipes(parsed.value, input_file, orig_basename,
                               system_requirement_in(parsed.value)))

\* line 181: yaml_text = recipe[:separator_position]
SplitAt(input_file, separator_position) ==
    SplitParsed(input_file, basename(input_file.name), separator_position,
                Slice(input_file.data, 0, separator_position),
                parse_yaml_header_tagged(Slice(input_file.data, 0, separator_position),
                                         input_file, 0, 0))

\* one pass of the loop of split_files over input_files: the errors it
\* appends and the entries it puts into header_parts and script_parts;
\* line 178: separator_position = recipe.find(b'\n---\n') + 1
SplitOne(input_file) == SplitAt(input_file, Find(input_file.data, SEPARATOR) + 1)

\* the dicts and the error list after the passes
MergeParts(passes) ==
    [errors |-> Flatten([i \in 1..Len(passes) |-> passes[i].errors]),
     header_parts |-> dict_of(Flatten([i \in 1..Len(passes) |-> passes[i].header_puts])),
     script_parts |-> dict_of(Flatten([i \in 1..Len(passes) |-> passes[i].script_puts]))]

split_files(files) == MergeParts([i \in 1..Len(files) |-> SplitOne(files[i])])

----------------------------------------------------------------------------
(* headerlint.check_keys_order *)

\* keys.index counting from one
index_from_one(keys, key) ==
    CHOOSE i \in 1..Len(keys) : keys[i] = key /\ \A j \in 1..(i - 1) : keys[j] # key

\* keys.index(key), for a key of the list
index(keys, key) == (CHOOSE i \in 1..Len(keys) : keys[i] = key /\ \A j \in 1..(i - 1) : keys[j] # key) - 1

\* make_error leaving the offsets of the part out
error_without_offsets(rel, orig_file_name, line_offset, column_offset, message) ==
    Error("error", message \o " [ali:key-order]", orig_file_name, rel.line, rel.column)

\* make_error of check_keys_order; position_of_key does not raise for a path
\* of one key in a tracked mapping
error_at(rel, orig_file_name, line_offset, column_offset, message) ==
    Error("error", message \o " [ali:key-order]", orig_file_name,
          rel.line + line_offset, rel.column + column_offset)

key_order_error(data, orig_file_name, line_offset, column_offset, message, key) ==
    error_at(position_of_key(data, <<key>>), orig_file_name, line_offset,
             column_offset, message)

check_keys_order(data, orig_file_name, line_offset, column_offset) ==
    LET make_error(message, key) ==
            key_order_error(data, orig_file_name, line_offset, column_offset, message, key)
        keys == DictKeys(data.items)
        requires == PyStr(K_requires)
        build_requires == PyStr(K_build_requires)
        package == PyStr(K_package)
        version == PyStr(K_version)
        tag == PyStr(K_tag)
        when(cond, error) == IF cond THEN <<error>> ELSE <<>>
    IN  (IF In(requires, data) /\ In(build_requires, data)
            /\ index(keys, requires) > index(keys, build_requires)
         THEN <<make_error("requires must come before build_requires", requires),
                make_error("requires must come before build_requires", build_requires)>>
         ELSE <<>>)
        \o
        (IF In(package, data)
         THEN when(index(keys, package) # 0,
                   make_error("package: must be the first key in the file", package))
              \o when(In(version, data) /\ index(keys, version) # 1,
                      make_error("version: must be the second key in the file (after package)",
                                 version))
              \o when(In(tag, data) /\ index(keys, tag) # 2,
                      make_error("tag: must be the third key in the file (after version)", tag))
         ELSE IF In(version, data)
         THEN when(index(keys, version) # 0,
                   make_error("version: must be the first key in the override declaration",
                              version))
              \o when(In(tag, data) /\ index(keys, tag) # 1,
                      make_error("tag: must be the second key in the override declaration (after version)",
                                 tag))
         ELSE when(In(tag, data) /\ index(keys, tag) # 0,
                   make_error("tag: must be the first key in the override declaration (as version is not present)",
                              tag)))

----------------------------------------------------------------------------
(* headerlint.emit_validation_errors.  The error tree of the validator is  *)
(* a Python value: a dict from fields to subtrees, a list of subtrees or a *)
(* str.  What the generator does is [errors, paths, exc]: the errors it    *)
(* yields, the paths it hands to position_of_key, and the exception that   *)
(* ends it, "" when it returns.                                            *)

DIGITS == <<"0", "1", "2", "3", "4", "5", "6", "7", "8", "9">>

\* str(n) for an int n >= 0
RECURSIVE str_of_int(_)
str_of_int(n) ==
    IF n < 10 THEN <<DIGITS[n + 1]>>
    ELSE str_of_int(n \div 10) \o <<DIGITS[(n % 10) + 1]>>

\* str(key) for a segment of a path
str(key) == IF key.t = "int" THEN str_of_int(key.n) ELSE key.s

\* '.'.join(map(str, path))
dotted_subpath(path) ==
    Flatten([i \in 1..Len(path) |->
               IF i = 1 THEN str(path[i]) ELSE <<".">> \o str(path[i])])

SCHEMA_CODE == <<" ", "[", "a", "l", "i", ":", "s", "c", "h", "e", "m", "a", "]">>

Emitted(yielded, paths, exc) == [errors |-> yielded, paths |-> paths, exc |-> exc]

\* lines 173-176, for rel what position_of_key answers
schema_error(rel, error_tree, file_name, line_offset, column_offset, path) ==
    IF rel.exc # "" THEN Emitted(<<>>, <<path>>, rel.exc)
    ELSE Emitted(<<Error("error",
                         dotted_subpath(path) \o <<":", " ">> \o error_tree.s \o SCHEMA_CODE,
                         file_name, rel.line + line_offset, rel.column + column_offset)>>,
                 <<path>>, "")

\* one generator after another: the second runs unless the first raised
yield_from(first, rest) ==
    IF first.exc # "" THEN first
    ELSE Emitted(first.errors \o rest.errors, first.paths \o rest.paths, rest.exc)

\* the subtrees of a dict or a list, and the path each is walked with:
\* line 164 for a dict, line 170 for a list
subtrees(error_tree) == [i \in 1..Len(error_tree.items) |->
                           IF IsDict(error_tree) THEN error_tree.items[i].v ELSE error_tree.items[i]]

subpaths(error_tree, path) == [i \in 1..Len(error_tree.items) |->
                                 IF IsDict(error_tree) THEN Append(path, error_tree.items[i].k) ELSE path]

RECURSIVE emit_validation_errors(_, _, _, _, _, _)
RECURSIVE emit_each(_, _, _, _, _, _, _)
\* the for loops of lines 161 and 167 from item i on
emit_each(trees, paths, i, tagged_validated_object, file_name, line_offset, column_offset) ==
    IF i > Len(trees) THEN Emitted(<<>>, <<>>, "")
    ELSE yield_from(emit_validation_errors(trees[i], tagged_validated_object, file_name,
                                           line_offset, column_offset, paths[i]),
                    emit_each(trees, paths, i + 1, tagged_validated_object, file_name,
                              line_offset, column_offset))

emit_validation_errors(error_tree, tagged_validated_object, file_name, line_offset, column_offset, path) ==
    IF IsDict(error_tree) \/ IsList(error_tree)
    THEN emit_each(subtrees(error_tree), subpaths(error_tree, path), 1,
                   tagged_validated_object, file_name, line_offset, column_offset)
    ELSE IF IsStr(error_tree)
    THEN schema_error(position_of_key(tagged_validated_object, path), error_tree,
                      file_name, line_offset, column_offset, path)
    ELSE Emitted(<<>>, <<>>, "TypeError")

----------------------------------------------------------------------------
(* headerlint.headerlint.  It walks a stream of parts and reads from each  *)
(* its temp_file_name and file_type next to the fields of YAMLFilePart and *)
(* ScriptFilePart: a part of the stream is the record FilePart, and the    *)
(* stream has the header parts of split_files, then its script parts.      *)
(* The outcome is [errors, paths, exc] as for emit_validation_errors.      *)

FilePart(temp_file_name, file_type, part) ==
    [temp_file_name |-> temp_file_name, file_type |-> file_type,
     orig_file_name |-> part.orig_file_name, line_offset |-> part.line_offset,
     column_offset |-> part.column_offset, content |-> part.content]

FileParts(headers, scripts) ==
    [i \in 1..Len(headers) |-> FilePart(headers[i].k, "yaml", headers[i].v)]
    \o [i \in 1..Len(scripts) |-> FilePart(scripts[i].k, "script", scripts[i].v)]

HEADERLINT_STARTED == <<"h", "e", "a", "d", "e", "r", "l", "i", "n", "t", " ", "s", "t", "a", "r", "t", "e", "d">>
HEADERLINT_GOT == <<"h", "e", "a", "d", "e", "r", "l", "i", "n", "t", " ", "g", "o", "t", " ">>
HEADERLINT_FINISHED == <<"h", "e", "a", "d", "e", "r", "l", "i", "n", "t", " ", "f", "i", "n", "i", "s", "h", "e", "d">>
K_overrides == <<"o", "v", "e", "r", "r", "i", "d", "e", "s">>

\* the info messages of lines 228, 231 and 290
headerlint_info(message) == Error("info", message, <<>>, 0, 0)

Yielded(yielded) == Emitted(yielded, <<>>, "")

\* lines 235-238: the error for a header without content
invalid_error(header) ==
    Error("error",
          "metadata invalid or empty (is the '\\n---\\n' separator present?) [ali:invalid]",
          header.orig_file_name, 1 + header.line_offset, 0 + header.column_offset)

\* lines 286-288: check_keys_order on each value of tagged_data['overrides']
overrides_errors(header, tagged) ==
    IF ~In(PyStr(K_overrides), tagged) THEN <<>>
    ELSE Flatten([i \in 1..Len(DictGet(tagged.items, PyStr(K_overrides)).items) |->
                    check_keys_order(DictGet(tagged.items, PyStr(K_overrides)).items[i].v,
                                     header.orig_file_name, header.line_offset,
                                     header.column_offset)])

\* lines 275-288 for a header with content; validator_answer is
\* validator.errors, the empty dict when validator.validate answers true.
\* header.content is a tracked mapping, which has the entry '_locations'
\* and is true, so that tagged_data is header.content (line 245), and its
\* pure_data is a dict (line 266)
lint_header(header, validator_answer) ==
    yield_from(emit_validation_errors(validator_answer, header.content, header.orig_file_name,
                                      header.line_offset, header.column_offset, <<>>),
               Yielded(check_keys_order(header.content, header.orig_file_name,
                                        header.line_offset, header.column_offset)
                       \o overrides_errors(header, header.content)))

\* the loop of line 230 from part i on, then line 290; the return of line
\* 239 ends the generator
RECURSIVE headerlint_from(_, _, _)
headerlint_from(parts, validator_answers, i) ==
    IF i > Len(parts) THEN Yielded(<<headerlint_info(HEADERLINT_FINISHED)>>)
    ELSE yield_from(
             Yielded(<<headerlint_info(HEADERLINT_GOT \o parts[i].temp_file_name)>>),
             IF parts[i].file_type # "yaml"
             THEN headerlint_from(parts, validator_answers, i + 1)
             ELSE IF ~IsDict(parts[i].content)
             THEN Yielded(<<invalid_error(parts[i])>>)
             ELSE yield_from(lint_header(parts[i], validator_answers[i]),
                             headerlint_from(parts, validator_answers, i + 1)))

headerlint(parts, validator_answers) ==
    yield_from(Yielded(<<headerlint_info(HEADERLINT_STARTED)>>),
               headerlint_from(parts, validator_answers, 1))

----------------------------------------------------------------------------
(* scriptlint.scriptlint, over the dict of script parts.  The regular      *)
(* expressions are written out as what they match.  The colons of a line   *)
(* are reported in ascending order; the order in which Python walks the    *)
(* set of them is not modelled.                                            *)

\* the bytes \w matches
WordBytes ==
    {"a", "b", "c", "d", "e", "f", "g", "h", "i", "j", "k", "l", "m", "n",
     "o", "p", "q", "r", "s", "t", "u", "v", "w", "x", "y", "z", "A", "B",
     "C", "D", "E", "F", "G", "H", "I", "J", "K", "L", "M", "N", "O", "P",
     "Q", "R", "S", "T", "U", "V", "W", "X", "Y", "Z", "0", "1", "2", "3",
     "4", "5", "6", "7", "8", "9", "_"}

\* the bytes \s matches (with the vertical tab, which no text here holds)
Whitespace == {" ", "\t", "\n", "\r", "\f"}

\* the 0-based offsets at which pat occurs in s
FindAll(s, pat) == {i \in 0..Len(s) : MatchAt(s, pat, i)}

\* every byte of s[a:b] is in the set
AllIn(s, a, b, bytes) == \A i \in (a + 1)..b : s[i] \in bytes

PREPEND_PATH == <<"p", "r", "e", "p", "e", "n", "d", "-", "p", "a", "t", "h">>
DOLLAR_COLONS == <<"$", ":", ":">>
DYLD_LIBRARY_PATH == <<"D", "Y", "L", "D", "_", "L", "I", "B", "R", "A", "R", "Y", "_", "P", "A", "T", "H">>
UNSET == <<"u", "n", "s", "e", "t">>
MKDIR == <<"m", "k", "d", "i", "r">>
RSYNC == <<"r", "s", "y", "n", "c">>
ETC_MODULEFILES == <<"e", "t", "c", "/", "m", "o", "d", "u", "l", "e", "f", "i", "l", "e", "s">>
AND_AND == <<"&", "&">>
MODULE_MAGIC == <<"#", "%", "M", "o", "d", "u", "l", "e">>
GENERATE_MODULE == <<"a", "l", "i", "b", "u", "i", "l", "d", "-", "g", "e", "n", "e", "r", "a", "t", "e", "-", "m", "o", "d", "u", "l", "e">>
SHEBANG == <<"#", "!">>
BASH_SHEBANG == <<"#", "!", "/", "b", "i", "n", "/", "b", "a", "s", "h", " ", "-", "e", "\n">>
DEFAULTS_PREFIX == <<"d", "e", "f", "a", "u", "l", "t", "s", "-">>

\* lines 13-17: make_error of scriptlint
script_error(script, message, rel_line, rel_column, level) ==
    Error(level, message, script.orig_file_name,
          1 + rel_line + script.line_offset, 1 + rel_column + script.column_offset)

\* line 21
is_defaults_recipe(script) == MatchAt(basename(script.orig_file_name), DEFAULTS_PREFIX, 0)

\* lines 22-32; key_name is None here, and human_key_name 'main recipe'
modulefile_errors(script) ==
    IF /\ script.key_name = None
       /\ ~script.is_system_requirement
       /\ ~is_defaults_recipe(script)
       /\ ~Contains(script.content, MODULE_MAGIC)
       /\ ~Contains(script.content, GENERATE_MODULE)
    THEN <<script_error(script,
                        "main recipe should create a Modulefile; use alibuild-generate-module or add a \"#%Module1.0\" comment to your manually-created Modulefile [ali:missing-modulefile]",
                        0, 0, "info")>>
    ELSE <<>>

\* lines 36-48
shebang_errors(script) ==
    IF /\ ~is_defaults_recipe(script)
       /\ ~script.is_system_requirement
       /\ \/ script.key_name \in {None, Some(K_incremental_recipe)}
          \/ MatchAt(script.content, SHEBANG, 0)
       /\ ~MatchAt(script.content, BASH_SHEBANG, 0)
    THEN <<script_error(script,
                        (IF MatchAt(script.content, SHEBANG, 0) THEN "Invalid" ELSE "Missing")
                            \o " script shebang. Use exactly \"#!/bin/bash -e\" to match aliBuild environment. You may see spurious errors until you fix the shebang. [ali:bad-shebang]",
                        0, 0, "info")>>
    ELSE <<>>

\* line 54: line_tail = line[prepend_path_pos:]
line_tail_of(line) == SliceFrom(line, Find(line, PREPEND_PATH))

\* lines 58-61: the two colons of each "$::" of the tail
colons_allowed(line_tail) ==
    UNION {{start + 1, start + 2} : start \in FindAll(line_tail, DOLLAR_COLONS)}

\* line 64
colons(line_tail) == FindAll(line_tail, <<":">>)

\* lines 65-69, for the colons in ascending order
colon_errors_at(script, lineno, positions) ==
    [n \in 1..Len(positions) |->
        script_error(script,
                     "Modules 4 does not allow colons in prepend-path [ali:colons-prepend-path]",
                     lineno, positions[n], "error")]

\* lines 52-69
colon_errors(script, lineno, line) ==
    IF Find(line, PREPEND_PATH) = -1 THEN <<>>
    ELSE colon_errors_at(script, lineno,
                         Sorted(colons(line_tail_of(line))
                                \ colons_allowed(line_tail_of(line))))

\* \b at offset i of the line: a word byte on one side only
word_boundary(line, i) ==
    (i > 0 /\ line[i] \in WordBytes) # (i < Len(line) /\ line[i + 1] \in WordBytes)

\* line 75: the matches of \bDYLD_LIBRARY_PATH\b
dyld_matches(line) ==
    {start \in FindAll(line, DYLD_LIBRARY_PATH) :
        /\ word_boundary(line, start)
        /\ word_boundary(line, start + Len(DYLD_LIBRARY_PATH))}

\* line 77: re.fullmatch(br'\s*unset\s+', prefix)
unset_before(prefix) ==
    \E a \in 0..Len(prefix) :
        /\ AllIn(prefix, 0, a, Whitespace)
        /\ MatchAt(prefix, UNSET, a)
        /\ a + Len(UNSET) < Len(prefix)
        /\ AllIn(prefix, a + Len(UNSET), Len(prefix), Whitespace)

dyld_errors_at(script, lineno, positions) ==
    [n \in 1..Len(positions) |->
        script_error(script,
                     "DYLD_LIBRARY_PATH is ignored on recent MacOS versions [ali:dyld-library-path]",
                     lineno, positions[n], "info")]

\* lines 75-82
dyld_errors(script, lineno, line) ==
    dyld_errors_at(script, lineno,
                   Sorted({start \in dyld_matches(line) : ~unset_before(Slice(line, 0, start))}))

\* \s+.*etc/modulefiles from offset a on: the offsets after the matches
after_modulefiles(line, a) ==
    {e + Len(ETC_MODULEFILES) :
        e \in {e \in FindAll(line, ETC_MODULEFILES) :
                 /\ a < Len(line)
                 /\ line[a + 1] \in Whitespace
                 /\ e >= a + 1}}

\* lines 88-89: re.search of
\* ^[^#]*mkdir\s+.*etc/modulefiles\s*&&\s*rsync\s+.*etc/modulefiles
masked_exitcode(line) ==
    \E m \in FindAll(line, MKDIR) :
        /\ \A i \in 1..m : line[i] # "#"
        /\ \E e \in after_modulefiles(line, m + Len(MKDIR)) :
              \E a \in {a \in FindAll(line, AND_AND) : a >= e} :
                 /\ AllIn(line, e, a, Whitespace)
                 /\ \E r \in {r \in FindAll(line, RSYNC) : r >= a + Len(AND_AND)} :
                       /\ AllIn(line, a + Len(AND_AND), r, Whitespace)
                       /\ after_modulefiles(line, r + Len(RSYNC)) # {}

\* lines 88-94
masked_errors(script, lineno, line) ==
    IF masked_exitcode(line)
    THEN <<script_error(script,
                        "\"mkdir && rsync\" ignores errors if \"mkdir\" fails; prefer writing the commands on separate lines [ali:masked-exitcode]",
                        lineno, Find(line, AND_AND), "info")>>
    ELSE <<>>

\* the body of the loop of line 50 for one line
line_errors(script, lineno, line) ==
    colon_errors(script, lineno, line) \o dyld_errors(script, lineno, line)
    \o masked_errors(script, lineno, line)

\* the loop of line 50 over lines = script.content.splitlines()
lines_errors(script, lines) ==
    Flatten([n \in 1..Len(lines) |-> line_errors(script, n - 1, lines[n])])

\* the body of the loop of line 20 for one script
script_errors(script) ==
    modulefile_errors(script) \o shebang_errors(script)
    \o lines_errors(script, SplitLines(script.content))

scriptlint(scripts) ==
    Flatten([i \in 1..Len(scripts) |-> script_errors(scripts[i].v)])

----------------------------------------------------------------------------
(* Input files.  Two families: every byte string over a small alphabet up  *)
(* to MaxLen bytes, which no YAML parser reads as a mapping, and recipes   *)
(* written out from a list of header entries, for which the bytes and the  *)
(* composed YAML document (with the marks of the bytes) go together.       *)

Alphabet == {NL, DASH, "a"}

ByteStrings == UNION {[1..n -> Alphabet] : n \in 0..MaxLen}

SPACE == " "
Spaces(n) == [i \in 1..n |-> SPACE]

\* a header entry "key: value": kind "scalar" (text on the key's line),
\* "block" (a literal block scalar of the lines), "list" (a block sequence
\* of the scalars elems) or "map" (a block mapping of the one key elems[1]
\* to the scalar text); keytag and tag are the Python types the YAML
\* resolver gives the key and the scalar
Entry(key, keytag, keyn, kind, tag, text, lines, elems) ==
    [key |-> key, keytag |-> keytag, keyn |-> keyn, kind |-> kind, tag |-> tag,
     text |-> text, lines |-> lines, elems |-> elems]

ScalarEntry(key, tag, text) == Entry(key, "str", 0, "scalar", tag, text, <<>>, <<>>)
BlockEntry(key, lines) == Entry(key, "str", 0, "block", "str", <<>>, lines, <<>>)
ListEntry(key, elems) == Entry(key, "str", 0, "list", "str", <<>>, <<>>, elems)
MapEntry(key, inner, tag, text) == Entry(key, "str", 0, "map", tag, text, <<>>, <<inner>>)

\* the lines an entry takes in the file
Height(entry) ==
    IF entry.kind = "scalar" THEN 1
    ELSE IF entry.kind = "block" THEN 1 + Len(entry.lines)
    ELSE 1 + Len(entry.elems)

\* the bytes of an entry whose key is indented by indent
RenderEntry(entry, indent) ==
    Spaces(indent) \o entry.key \o
    (IF entry.kind = "scalar" THEN <<":", SPACE>> \o entry.text \o <<NL>>
     ELSE IF entry.kind = "block"
     THEN <<":", SPACE, "|", NL>> \o
          Flatten([i \in 1..Len(entry.lines) |->
                     Spaces(indent + 2) \o entry.lines[i] \o <<NL>>])
     ELSE IF entry.kind = "map"
     THEN <<":", NL>> \o Spaces(indent + 2) \o entry.elems[1] \o <<":", SPACE>> \o
          entry.text \o <<NL>>
     ELSE <<":", NL>> \o
          Flatten([i \in 1..Len(entry.elems) |->
                     Spaces(indent + 2) \o <<DASH, SPACE>> \o entry.elems[i] \o <<NL>>]))

\* the [k, v] node pair the composer builds for an entry whose key is on
\* line `line` (0-based) at column indent
NodeOfEntry(entry, line, indent) ==
    LET vcol == indent + Len(entry.key) + 2
    IN  [k |-> ScalarNode(entry.keytag, entry.key, entry.keyn, line, indent),
         v |-> IF entry.kind = "scalar"
               THEN ScalarNode(entry.tag, entry.text, 0, line, vcol)
               ELSE IF entry.kind = "block"
               THEN ScalarNode("str",
                               Flatten([i \in 1..Len(entry.lines) |->
                                          entry.lines[i] \o <<NL>>]),
                               0, line, vcol)
               ELSE IF entry.kind = "map"
               THEN MappingNode(<<[k |-> ScalarNode("str", entry.elems[1], 0,
                                                    line + 1, indent + 2),
                                   v |-> ScalarNode(entry.tag, entry.text, 0, line + 1,
                                                    indent + Len(entry.elems[1]) + 4)]>>,
                                line + 1, indent + 2)
               ELSE SequenceNode([i \in 1..Len(entry.elems) |->
                                    ScalarNode("str", entry.elems[i], 0,
                                               line + i, indent + 4)],
                                 line + 1, indent + 2)]

RECURSIVE LineOfEntry(_, _)
\* the 0-based line of entry i of a header
LineOfEntry(entries, i) ==
    IF i = 1 THEN 0 ELSE LineOfEntry(entries, i - 1) + Height(entries[i - 1])

HeaderText(entries, indent) ==
    Flatten([i \in 1..Len(entries) |-> RenderEntry(entries[i], indent)])

HeaderNode(entries, indent) ==
    MappingNode([i \in 1..Len(entries) |->
                   NodeOfEntry(entries[i], LineOfEntry(entries, i), indent)],
                0, indent)

YamlNode(node) == [kind |-> "node", node |-> node, mark |-> None]
YamlError(kind, mark) ==
    [kind |-> kind, node |-> ScalarNode("NoneType", <<>>, 0, 0, 0), mark |-> mark]

InputFile(name, data, yaml) == [name |-> name, data |-> data, yaml |-> yaml]

\* a recipe: the header entries, the separator line and the script
Recipe(name, entries, indent, script) ==
    InputFile(name, HeaderText(entries, indent) \o <<DASH, DASH, DASH, NL>> \o script,
              YamlNode(HeaderNode(entries, indent)))


\* the header entries of the model
E_package == ScalarEntry(K_package, "str", <<"f", "o", "o">>)
E_version == ScalarEntry(K_version, "float", <<"1", ".", "0">>)
E_tag == ScalarEntry(K_tag, "str", <<"v", "1">>)
E_tag_dashes == ScalarEntry(K_tag, "str", <<"a", "-", "-", "-", "b", "-", "-", "-", "c">>)
E_requires == ListEntry(K_requires, <<<<"a">>, <<"b">>>>)
E_build_requires == ListEntry(K_build_requires, <<<<"c">>>>)
E_incremental_recipe == BlockEntry(K_incremental_recipe, <<<<"m", "a", "k", "e">>>>)
E_prefer_system_check_list == ListEntry(K_prefer_system_check, <<<<"a">>>>)
E_system_requirement == ScalarEntry(K_system_requirement, "str", <<"x">>)
E_int_key == Entry(<<"1">>, "int", 1, "scalar", "str", <<"x">>, <<>>, <<>>)
E_prepend_path == MapEntry(K_prepend_path, <<"P", "A", "T", "H">>, "float", <<"1", ".", "5">>)

\* the headers: up to MaxKeys different entries of a universe, in any order
HeadersOf(universe) ==
    UNION {{h \in [1..n -> universe] : \A i, j \in 1..n : i # j => h[i] # h[j]}
           : n \in 1..MaxKeys}

SplitEntries ==
    {E_package, E_version, E_tag_dashes, E_incremental_recipe,
     E_prefer_system_check_list, E_system_requirement, E_int_key}

OrderEntries ==
    {E_package, E_version, E_tag, E_requires, E_build_requires, E_incremental_recipe,
     E_prepend_path}

NAME_A == <<"d", "/", "a", ".", "s", "h">>
SCRIPT == <<"e", "c", "h", "o", " ", "h", "i", "\n">>

RawYaml ==
    { YamlNode(ScalarNode("str", <<"a">>, 0, 0, 0)),
      YamlError("MarkedYAMLError", Some(Mark(1, 0))),
      YamlError("YAMLError", None) }

RawFiles == {InputFile(NAME_A, data, yaml) : data \in ByteStrings, yaml \in RawYaml}

RecipeFilesOf(universe) ==
    {Recipe(NAME_A, entries, indent, SCRIPT) :
        entries \in HeadersOf(universe), indent \in 0..MaxIndent}

----------------------------------------------------------------------------
(* The error trees of the validator.  The validator is outside the         *)
(* program: validator.errors comes with the input, as one of the trees the *)
(* schema of get_schema_for_file can give for the header: a list of        *)
(* messages for a field, a dict from the index of an item to the item's    *)
(* messages for a list, and for a value under the 'anyof' of               *)
(* environment_schema the message that no definition validates followed by *)
(* a dict from 'anyof definition N' to the messages of alternative N.      *)

REQUIRED_FIELD == <<"r", "e", "q", "u", "i", "r", "e", "d", " ", "f", "i", "e", "l", "d">>
MUST_BE_STRING == <<"m", "u", "s", "t", " ", "b", "e", " ", "o", "f", " ", "s", "t", "r", "i", "n", "g", " ", "t", "y", "p", "e">>
MUST_BE_LIST == <<"m", "u", "s", "t", " ", "b", "e", " ", "o", "f", " ", "l", "i", "s", "t", " ", "t", "y", "p", "e">>
MUST_MATCH == <<"m", "u", "s", "t", " ", "b", "e", " ", "a", " ", "s", "t", "r", "i", "n", "g">>
NO_DEFINITIONS == <<"n", "o", " ", "d", "e", "f", "i", "n", "i", "t", "i", "o", "n", "s", " ", "v", "a", "l", "i", "d", "a", "t", "e">>
ANYOF_0 == PyStr(<<"a", "n", "y", "o", "f", " ", "d", "e", "f", "i", "n", "i", "t", "i", "o", "n", " ", "0">>)
ANYOF_1 == PyStr(<<"a", "n", "y", "o", "f", " ", "d", "e", "f", "i", "n", "i", "t", "i", "o", "n", " ", "1">>)

Messages(texts) == PyList([i \in 1..Len(texts) |-> PyStr(texts[i])])

\* the errors of the items of a list: item i is not a string
ItemErrors(indices) ==
    PyList(<<PyDict([n \in 1..Len(indices) |->
                       [k |-> PyInt(indices[n]), v |-> Messages(<<MUST_BE_STRING>>)]])>>)

\* the errors of the one value of a mapping checked against the anyof
AnyofErrors(key) ==
    PyList(<<PyDict(<<[k |-> key,
                       v |-> PyList(<<PyStr(NO_DEFINITIONS),
                                      PyDict(<<[k |-> ANYOF_0, v |-> Messages(<<MUST_BE_STRING>>)],
                                               [k |-> ANYOF_1, v |-> Messages(<<MUST_BE_LIST>>)]>>)>>)]>>)>>)

\* what the validator can say about the value of a declared field
ValueErrors(value) ==
    IF IsDict(value) THEN {AnyofErrors(value.items[1].k)}
    ELSE IF IsList(value)
    THEN {ItemErrors(indices) :
            indices \in {<<i>> : i \in 0..(Len(value.items) - 1)}
                        \cup {<<0, i>> : i \in 1..(Len(value.items) - 1)}}
    ELSE {Messages(<<MUST_BE_STRING>>), Messages(<<MUST_BE_STRING, MUST_MATCH>>)}

\* the fields the validator can report: the declared ones in their order,
\* then the required ones that are missing
ReportedFields(pure) ==
    DictKeys(pure.items) \o
    SelectSeq(<<PyStr(K_package), PyStr(K_version)>>, LAMBDA key : ~In(key, pure))

FieldErrors(pure, key) ==
    IF In(key, pure)
    THEN {[k |-> key, v |-> v] : v \in ValueErrors(DictGet(pure.items, key))}
    ELSE {[k |-> key, v |-> Messages(<<REQUIRED_FIELD>>)]}

\* validator.errors when validator.validate(pure) is false: errors about
\* one field, or about two fields next to each other
ErrorTrees(pure) ==
    LET fields == ReportedFields(pure)
    IN  {PyDict(<<f>>) : f \in UNION {FieldErrors(pure, fields[i]) : i \in 1..Len(fields)}}
        \cup UNION {{PyDict(<<f, g>>) : f \in FieldErrors(pure, fields[i]),
                                        g \in FieldErrors(pure, fields[i + 1])}
                    : i \in 1..(Len(fields) - 1)}

\* the offsets of a part: those of a header part, (0, 0), and others
PartOffsets ==
    {[line |-> l, column |-> IF l = 0 THEN 0 ELSE l + 1] : l \in 0..MaxOffset}

----------------------------------------------------------------------------
(* The splitter alone, over one input file. *)

NoParts ==
    /\ errors = <<>>
    /\ header_parts = <<>>
    /\ script_parts = <<>>

NoHeader ==
    /\ tagged_data = PyNone
    /\ pure_data = PyNone
    /\ lint_errors = <<>>
    /\ lint_raised = ""
    /\ part_offsets = [line |-> 0, column |-> 0]
    /\ validator_errors = <<>>
    /\ handed_paths = <<>>
    /\ object_path = <<>>
    /\ resolved = Raised("")

NoRun ==
    /\ run_functions = <<>>
    /\ checker_runs = <<>>
    /\ wpc = <<>>
    /\ wnext = <<>>
    /\ sentinels_put = <<>>
    /\ errors_queue = <<>>
    /\ num_sentinels = 0
    /\ have_error = FALSE
    /\ exit_status = None
    /\ dequeued = {}

SplitInit ==
    /\ pc = "split"
    /\ input_files \in
           {<<input_file>> : input_file \in RawFiles \cup RecipeFilesOf(SplitEntries)}
    /\ NoParts
    /\ NoHeader
    /\ NoRun

\* run.py line 42: common.split_files(tempdir, args.recipes)
SplitFiles ==
    /\ pc = "split"
    /\ \E out \in {split_files(input_files)} :
           /\ errors' = out.errors
           /\ header_parts' = out.header_parts
           /\ script_parts' = out.script_parts
    /\ pc' = "parts"
    /\ UNCHANGED <<input_files, header_vars, run_vars>>

SplitNext == SplitFiles

SplitSpec == SplitInit /\ [][SplitNext]_vars


----------------------------------------------------------------------------
(* The header operations alone, over the header of one recipe: the loader, *)
(* remove_trackers (once, and again on its own result), check_keys_order   *)
(* and position_of_key.                                                    *)

\* the paths of up to two segments into a tracked mapping: a key that is
\* declared or one that is not, then the index of an item of the key's
\* sequence, or index 0 where the key's value is no sequence
Paths(data) ==
    LET keys == {data.items[i].k : i \in 1..Len(data.items)} \cup {PyStr(K_version)}
        indices(value) == IF IsList(value) THEN 0..(Len(value.items) - 2) ELSE {0}
    IN  {<<key>> : key \in keys}
        \cup UNION {{<<key, PyInt(i)>> : i \in indices(DictGet(data.items, key))}
                    : key \in {k \in keys : In(k, data) /\ k # LOCATIONS}}

HeaderInit ==
    /\ pc = "load"
    /\ input_files \in {<<input_file>> : input_file \in RecipeFilesOf(OrderEntries)}
    /\ NoParts
    /\ NoHeader
    /\ NoRun

\* headerlint.py line 249: yaml.load(temp_file, TrackedLocationLoader)
LoadHeader ==
    /\ pc = "load"
    /\ tagged_data' = yaml_load(input_files[1]).v
    /\ pc' = "loaded"
    /\ UNCHANGED <<input_files, split_vars, run_vars, pure_data, lint_errors, lint_raised, part_offsets, validator_errors, handed_paths, object_path, resolved>>

\* headerlint.py line 263
RemoveTrackers ==
    /\ pc = "loaded"
    /\ pure_data' = remove_trackers(tagged_data)
    /\ pc' = "clean"
    /\ UNCHANGED <<input_files, split_vars, run_vars, tagged_data, lint_errors, lint_raised, part_offsets, validator_errors, handed_paths, object_path, resolved>>

\* remove_trackers on an already clean value
RemoveTrackersAgain ==
    /\ pc = "clean"
    /\ pure_data' = remove_trackers(pure_data)
    /\ pc' = "clean again"
    /\ UNCHANGED <<input_files, split_vars, run_vars, tagged_data, lint_errors, lint_raised, part_offsets, validator_errors, handed_paths, object_path, resolved>>

\* headerlint.py line 284
CheckKeysOrder ==
    /\ pc = "loaded"
    /\ \E part \in PartOffsets :
          /\ part_offsets' = part
          /\ lint_errors' = check_keys_order(tagged_data, input_files[1].name,
                                             part.line, part.column)
    /\ pc' = "ordered"
    /\ UNCHANGED <<input_files, split_vars, run_vars, tagged_data, pure_data, lint_raised, validator_errors, handed_paths, object_path, resolved>>

\* headerlint.py line 173
PositionOfKey ==
    /\ pc = "loaded"
    /\ \E path \in Paths(tagged_data) :
          /\ object_path' = path
          /\ resolved' = position_of_key(tagged_data, path)
    /\ pc' = "resolved"
    /\ UNCHANGED <<input_files, split_vars, run_vars, tagged_data, pure_data, lint_errors, lint_raised, part_offsets, validator_errors, handed_paths>>

\* headerlint.py lines 263 and 275-281, when validator.validate answers false
EmitValidationErrors ==
    /\ pc = "loaded"
    /\ \E error_tree \in ErrorTrees(remove_trackers(tagged_data)), part \in PartOffsets :
          \E out \in {emit_validation_errors(error_tree, tagged_data, input_files[1].name,
                                              part.line, part.column, <<>>)} :
             /\ validator_errors' = <<error_tree>>
             /\ part_offsets' = part
             /\ lint_errors' = out.errors
             /\ handed_paths' = out.paths
             /\ lint_raised' = out.exc
    /\ pc' = "emitted"
    /\ UNCHANGED <<input_files, split_vars, run_vars, tagged_data, pure_data, object_path, resolved>>

HeaderNext ==
    \/ LoadHeader
    \/ RemoveTrackers
    \/ RemoveTrackersAgain
    \/ CheckKeysOrder
    \/ PositionOfKey
    \/ EmitValidationErrors

HeaderSpec == HeaderInit /\ [][HeaderNext]_vars


----------------------------------------------------------------------------
(* The splitter and headerlint over several input files, some of them with *)
(* the same base name in different directories.                            *)

NAME_E_A == <<"e", "/", "a", ".", "s", "h">>
NAME_B == <<"d", "/", "b", ".", "s", "h">>
FileNames == {NAME_A, NAME_E_A, NAME_B}

\* a header the YAML parser rejects: the flow sequence is not closed
BAD_HEADER == <<"t", "a", "g", ":", " ", "[", "v", "1", "\n">>

\* what a file of some name can hold: a recipe with a header in order, one
\* with a value that the validator rejects under the anyof, one with a
\* header that does not parse, and a script without header and separator
FilesNamed(name) ==
    {Recipe(name, <<E_package, E_version>>, 0, SCRIPT),
     Recipe(name, <<E_version, E_prepend_path>>, 0, SCRIPT),
     InputFile(name, BAD_HEADER \o <<DASH, DASH, DASH, NL>> \o SCRIPT,
               YamlError("MarkedYAMLError", Some(Mark(1, 0)))),
     InputFile(name, SCRIPT, YamlNode(ScalarNode("str", <<"a">>, 0, 0, 0)))}

\* args.recipes: up to MaxFiles files of different names
FileLists ==
    UNION {{files \in [1..n -> UNION {FilesNamed(name) : name \in FileNames}] :
              \A i, j \in 1..n : i # j => files[i].name # files[j].name}
           : n \in 1..MaxFiles}

FilesInit ==
    /\ pc = "split"
    /\ input_files \in FileLists
    /\ NoParts
    /\ NoHeader
    /\ NoRun

\* validator.errors for each part from part i on: the empty dict for a header
\* that validates and for a part that is not validated
RECURSIVE ValidatorAnswers(_, _)
ValidatorAnswers(parts, i) ==
    IF i > Len(parts) THEN {<<>>}
    ELSE {<<answer>> \o rest :
            answer \in {PyDict(<<>>)} \cup
                       (IF parts[i].file_type = "yaml" /\ IsDict(parts[i].content)
                        THEN ErrorTrees(remove_trackers(parts[i].content)) ELSE {}),
            rest \in ValidatorAnswers(parts, i + 1)}

\* run.py line 21 for the checker headerlint: checker(file_parts), taken to
\* its end
Headerlint ==
    /\ pc = "parts"
    /\ \E validator_answers \in ValidatorAnswers(FileParts(header_parts, script_parts), 1) :
          \E out \in {headerlint(FileParts(header_parts, script_parts), validator_answers)} :
             /\ validator_errors' = validator_answers
             /\ lint_errors' = out.errors
             /\ handed_paths' = out.paths
             /\ lint_raised' = out.exc
    /\ pc' = "linted"
    /\ UNCHANGED <<input_files, split_vars, run_vars, tagged_data, pure_data, part_offsets, object_path, resolved>>

FilesNext ==
    \/ SplitFiles
    \/ Headerlint

FilesSpec == FilesInit /\ [][FilesNext]_vars


----------------------------------------------------------------------------
(* scriptlint alone, over a dict of script parts as split_files makes      *)
(* them: a main script, alone or with an embedded script after it.         *)

SCRIPT_LINES ==
    {<<"p", "r", "e", "p", "e", "n", "d", "-", "p", "a", "t", "h", " ", "P", "A", "T", "H", " ", "$", ":", ":", "e", "n", "v", "(", "X", ")", "/", "b", "i", "n">>,
     <<"p", "r", "e", "p", "e", "n", "d", "-", "p", "a", "t", "h", " ", "P", "A", "T", "H", " ", "a", ":", "b">>,
     <<" ", " ", "p", "r", "e", "p", "e", "n", "d", "-", "p", "a", "t", "h", " ", "P", "A", "T", "H", " ", "a", ":", "b">>,
     <<"x", ":", " ", "p", "r", "e", "p", "e", "n", "d", "-", "p", "a", "t", "h", " ", "P", " ", "$", ":", ":", "b", ":", "c">>,
     <<"u", "n", "s", "e", "t", " ", "D", "Y", "L", "D", "_", "L", "I", "B", "R", "A", "R", "Y", "_", "P", "A", "T", "H">>,
     <<"e", "x", "p", "o", "r", "t", " ", "D", "Y", "L", "D", "_", "L", "I", "B", "R", "A", "R", "Y", "_", "P", "A", "T", "H", "=", "x">>,
     <<"m", "k", "d", "i", "r", " ", "-", "p", " ", "e", "t", "c", "/", "m", "o", "d", "u", "l", "e", "f", "i", "l", "e", "s", " ", "&", "&", " ", "r", "s", "y", "n", "c", " ", "-", "a", " ", "e", "t", "c", "/", "m", "o", "d", "u", "l", "e", "f", "i", "l", "e", "s">>,
     <<"#", "!", "/", "b", "i", "n", "/", "b", "a", "s", "h", " ", "-", "e">>,
     <<"#", "%", "M", "o", "d", "u", "l", "e", "1", ".", "0">>}

\* the lines, each with its line end
JoinLines(lines) == Flatten([n \in 1..Len(lines) |-> lines[n] \o <<NL>>])

ScriptContents ==
    {JoinLines(lines) : lines \in UNION {[1..n -> SCRIPT_LINES] : n \in 1..MaxLines}}

NAME_DEFAULTS == <<"d", "/", "d", "e", "f", "a", "u", "l", "t", "s", "-", "o", "2", ".", "s", "h">>

\* a main script: no key name, a line offset past the separator line, column
\* offset 0
MainScripts ==
    {ScriptFilePart(name, line_offset, 0, content, None, is_system_requirement) :
        name \in {NAME_A, NAME_DEFAULTS}, line_offset \in 1..(MaxOffset + 1),
        content \in ScriptContents, is_system_requirement \in BOOLEAN}

\* an embedded script: its key's name, and the offsets of its key
EmbeddedScript(main) ==
    ScriptFilePart(main.orig_file_name, 1, 2, JoinLines(<<<<" ", " ", "p", "r", "e", "p", "e", "n", "d", "-", "p", "a", "t", "h", " ", "P", "A", "T", "H", " ", "a", ":", "b">>>>),
                   Some(K_incremental_recipe), main.is_system_requirement)

ScriptDicts ==
    {<<[k |-> basename(main.orig_file_name) \o SCRIPT_SH, v |-> main]>> : main \in MainScripts}
    \cup {<<[k |-> basename(main.orig_file_name) \o SCRIPT_SH, v |-> main],
            [k |-> basename(main.orig_file_name) \o <<".">> \o K_incremental_recipe \o DOT_SH,
             v |-> EmbeddedScript(main)]>> : main \in MainScripts}

ScriptInit ==
    /\ pc = "scripts"
    /\ input_files = <<>>
    /\ errors = <<>>
    /\ header_parts = <<>>
    /\ script_parts \in ScriptDicts
    /\ NoHeader
    /\ NoRun

\* run.py line 21 for the checker scriptlint: checker(file_parts), taken to
\* its end
Scriptlint ==
    /\ pc = "scripts"
    /\ lint_errors' = scriptlint(script_parts)
    /\ pc' = "scriptlinted"
    /\ UNCHANGED <<input_files, split_vars, run_vars, tagged_data, pure_data, lint_raised, part_offsets, validator_errors, handed_paths, object_path, resolved>>

ScriptNext == Scriptlint

ScriptSpec == ScriptInit /\ [][ScriptNext]_vars


----------------------------------------------------------------------------
(* run.checker_wrapper and run.run_with_args.  A checker is any callable   *)
(* from the parts to an iterable of errors: it yields some errors and then *)
(* ends, or raises.  Each worker thread runs checker_wrapper; each put and *)
(* each get on the queue is one step.  A queue item is None, the sentinel, *)
(* or <<error>>.                                                           *)

\* lines 33-38: the checkers, in the order of run_functions
CHECKERS == <<"headerlint", "scriptlint", "yamllint", "shellcheck">>

\* the lists run_functions can be: the checkers the flags leave enabled
EnabledCheckers ==
    {SelectSeq(CHECKERS, LAMBDA func : func \in enabled) :
        enabled \in {e \in SUBSET {CHECKERS[i] : i \in 1..Len(CHECKERS)} :
                        Cardinality(e) <= MaxCheckers}}

\* what a checker may do with the parts of a run: end without an error,
\* yield one error and end, or raise
Finding(func) == Error("error", func \o " finding", NAME_A, 1, 1)
CheckerRuns(func) ==
    {[yields |-> <<>>, raises |-> FALSE],
     [yields |-> <<Finding(func)>>, raises |-> FALSE],
     [yields |-> <<>>, raises |-> TRUE]}

\* lines 20 and 24: the messages of checker_wrapper
started(func) == Error("info", "checker " \o func \o " started", <<>>, 0, 0)
done(func) == Error("info", "checker " \o func \o " done", <<>>, 0, 0)

\* a queue that hands out the newest item first
put_front(queue, item) == <<item>> \o queue

\* errors_queue.put(item)
put(queue, item) == Append(queue, item)

\* a run that yields an error and keeps the flag only of the last message
last_is_error(seen, error) == error.level = "error"

\* line 56: have_error |= error.level == 'error'
update_have_error(seen, error) == seen \/ error.level = "error"

Workers == 1..Len(run_functions)

\* the recipe of the run: its header holds "---", which split_files reports
RunRecipe == Recipe(NAME_A, <<E_tag_dashes>>, 0, SCRIPT)

Init ==
    /\ pc = "split"
    /\ input_files = <<RunRecipe>>
    /\ NoParts
    /\ NoHeader
    /\ run_functions \in EnabledCheckers
    /\ checker_runs \in
           {runs \in [1..Len(run_functions) ->
                         UNION {CheckerRuns(CHECKERS[i]) : i \in 1..Len(CHECKERS)}] :
               \A w \in 1..Len(run_functions) : runs[w] \in CheckerRuns(run_functions[w])}
    /\ wpc = <<>>
    /\ wnext = <<>>
    /\ sentinels_put = <<>>
    /\ errors_queue = <<>>
    /\ num_sentinels = 0
    /\ have_error = FALSE
    /\ exit_status = None
    /\ dequeued = {}

\* lines 45-47: every checker is submitted to the executor
Submit ==
    /\ pc = "parts"
    /\ wpc' = [w \in Workers |-> "submitted"]
    /\ wnext' = [w \in Workers |-> 0]
    /\ sentinels_put' = [w \in Workers |-> 0]
    /\ pc' = "consume"
    /\ UNCHANGED <<input_files, split_vars, header_vars, run_functions, checker_runs,
                   errors_queue, consumer_vars>>

\* line 20
WorkerStart(w) ==
    /\ wpc[w] = "submitted"
    /\ errors_queue' = put(errors_queue, Some(started(run_functions[w])))
    /\ wpc' = [wpc EXCEPT ![w] = "iterating"]
    /\ UNCHANGED <<pc, input_files, split_vars, header_vars, run_functions, checker_runs,
                   wnext, sentinels_put, consumer_vars>>

\* lines 21-22: the checker yields its next error
WorkerPut(w) ==
    /\ wpc[w] = "iterating"
    /\ wnext[w] < Len(checker_runs[w].yields)
    /\ errors_queue' = put(errors_queue, Some(checker_runs[w].yields[wnext[w] + 1]))
    /\ wnext' = [wnext EXCEPT ![w] = @ + 1]
    /\ UNCHANGED <<pc, input_files, split_vars, header_vars, run_functions, checker_runs,
                   wpc, sentinels_put, consumer_vars>>

\* line 21: the checker raises; the exception ends checker_wrapper and stays
\* in the future nobody reads
WorkerRaise(w) ==
    /\ wpc[w] = "iterating"
    /\ wnext[w] = Len(checker_runs[w].yields)
    /\ checker_runs[w].raises
    /\ wpc' = [wpc EXCEPT ![w] = "raised"]
    /\ UNCHANGED <<pc, input_files, split_vars, header_vars, run_functions, checker_runs,
                   wnext, sentinels_put, errors_queue, consumer_vars>>

\* lines 21 and 24: the checker is exhausted
WorkerDone(w) ==
    /\ wpc[w] = "iterating"
    /\ wnext[w] = Len(checker_runs[w].yields)
    /\ ~checker_runs[w].raises
    /\ errors_queue' = put(errors_queue, Some(done(run_functions[w])))
    /\ wpc' = [wpc EXCEPT ![w] = "done"]
    /\ UNCHANGED <<pc, input_files, split_vars, header_vars, run_functions, checker_runs,
                   wnext, sentinels_put, consumer_vars>>

\* line 25
WorkerSentinel(w) ==
    /\ wpc[w] = "done"
    /\ errors_queue' = put(errors_queue, None)
    /\ sentinels_put' = [sentinels_put EXCEPT ![w] = @ + 1]
    /\ wpc' = [wpc EXCEPT ![w] = "finished"]
    /\ UNCHANGED <<pc, input_files, split_vars, header_vars, run_functions, checker_runs,
                   wnext, consumer_vars>>

\* lines 50-56: one pass of the loop; get blocks while the queue is empty
ConsumerGet ==
    /\ pc = "consume"
    /\ num_sentinels < Len(run_functions)
    /\ errors_queue # <<>>
    /\ errors_queue' = Tail(errors_queue)
    /\ LET error == Head(errors_queue)
       IN  IF error = None
           THEN /\ num_sentinels' = num_sentinels + 1
                /\ UNCHANGED <<have_error, dequeued>>
           ELSE /\ have_error' = update_have_error(have_error, error[1])
                /\ dequeued' = dequeued \cup {error[1]}
                /\ UNCHANGED num_sentinels
    /\ UNCHANGED <<pc, input_files, split_vars, header_vars, run_functions, checker_runs,
                   worker_vars, exit_status>>

\* lines 50 and 58: the loop ends and run_with_args returns
Return ==
    /\ pc = "consume"
    /\ ~(num_sentinels < Len(run_functions))
    /\ exit_status' = Some(IF have_error THEN 1 ELSE 0)
    /\ pc' = "returned"
    /\ UNCHANGED <<input_files, split_vars, header_vars, run_functions, checker_runs,
                   worker_vars, errors_queue, num_sentinels, have_error, dequeued>>

Next ==
    \/ SplitFiles
    \/ Submit
    \/ \E w \in DOMAIN wpc : WorkerStart(w)
    \/ \E w \in DOMAIN wpc : WorkerPut(w)
    \/ \E w \in DOMAIN wpc : WorkerRaise(w)
    \/ \E w \in DOMAIN wpc : WorkerDone(w)
    \/ \E w \in DOMAIN wpc : WorkerSentinel(w)
    \/ ConsumerGet
    \/ Return

Spec == Init /\ [][Next]_vars

\* the steps of the executor's threads and of the main thread once the
\* parts are there
Scheduled ==
    \/ Submit
    \/ \E w \in DOMAIN wpc :
          WorkerStart(w) \/ WorkerPut(w) \/ WorkerRaise(w) \/ WorkerDone(w) \/ WorkerSentinel(w)
    \/ ConsumerGet
    \/ Return

\* the threads all get to run: a step that stays possible is taken
FairSpec == Spec /\ WF_vars(Scheduled)

----------------------------------------------------------------------------
(* Claims about the header operations, checked under HeaderSpec. *)

\* the keys the header declares, in the order of the file
DeclaredKeys ==
    SelectSeq(DictKeys(tagged_data.items), LAMBDA key : key # LOCATIONS)

\* the composed [k, v] pair of the declared key
KeyNode(key) ==
    LET pairs == input_files[1].yaml.node.value
    IN  pairs[CHOOSE i \in 1..Len(pairs) : pairs[i].k.s = key].k

\* C2: tracker removal is idempotent: removing the trackers of an already
\* clean tree, sequences included, changes nothing.
C2_RemoveTrackersIdempotent ==
    pc = "clean again" => pure_data = remove_trackers(tagged_data)

\* the key-order errors about one key, by their message
OrderErrors(messages) ==
    SelectSeq(lint_errors, LAMBDA e : e.message \in messages)

PackageMessages == {"package: must be the first key in the file [ali:key-order]"}
VersionMessages ==
    {"version: must be the second key in the file (after package) [ali:key-order]",
     "version: must be the first key in the override declaration [ali:key-order]"}
TagMessages ==
    {"tag: must be the third key in the file (after version) [ali:key-order]",
     "tag: must be the second key in the override declaration (after version) [ali:key-order]",
     "tag: must be the first key in the override declaration (as version is not present) [ali:key-order]"}

\* an error at the 1-based place of the key in the header, moved by the
\* offsets of the part
AtKey(e, key) ==
    /\ e.level = "error"
    /\ e.file_name = input_files[1].name
    /\ e.line = KeyNode(key).line + 1 + part_offsets.line
    /\ e.column = KeyNode(key).column + 1 + part_offsets.column

TagVersionPackage ==
    /\ pc = "ordered"
    /\ DeclaredKeys = <<PyStr(K_tag), PyStr(K_version), PyStr(K_package)>>

\* C3 as claimed: a header declaring tag, version, package in this order
\* gets exactly three key-order diagnostics, one each for package, version
\* and tag.
C3_ThreeDiagnostics ==
    TagVersionPackage =>
        /\ Len(lint_errors) = 3
        /\ Len(OrderErrors(PackageMessages)) = 1
        /\ Len(OrderErrors(VersionMessages)) = 1
        /\ Len(OrderErrors(TagMessages)) = 1

\* C3 as amended: a header declaring exactly tag, version, package in this
\* order gets exactly two key-order diagnostics, one for package at
\* package's place and one for tag at tag's place, and none for version,
\* which is the second key as required.
C3_TwoDiagnostics ==
    TagVersionPackage =>
        /\ Len(lint_errors) = 2
        /\ Len(OrderErrors(PackageMessages)) = 1
        /\ AtKey(OrderErrors(PackageMessages)[1], K_package)
        /\ Len(OrderErrors(TagMessages)) = 1
        /\ AtKey(OrderErrors(TagMessages)[1], K_tag)
        /\ Len(OrderErrors(VersionMessages)) = 0

C3_Witness == TagVersionPackage /\ Len(lint_errors) = 2

\* the path of position_of_key ends in a tracked sequence: its parent
SeqParent ==
    /\ pc = "resolved"
    /\ Len(object_path) = 2
    /\ In(object_path[1], tagged_data)
    /\ IsList(DictGet(tagged_data.items, object_path[1]))

\* the position list of that sequence, its last element
PositionList ==
    LET sequence == DictGet(tagged_data.items, object_path[1]).items
    IN  sequence[Len(sequence)].items

\* C8 as claimed: with a tracked sequence as the parent, position_of_key
\* answers the position of the last entry of the position list, whatever
\* the index path[-1].
C8_LastEntryOfPositionList ==
    SeqParent =>
        resolved = Returned(PositionList[Len(PositionList)].line + 1,
                            PositionList[Len(PositionList)].column + 1)

\* C8 as amended: with a tracked sequence as the parent and path[-1] the
\* index of one of its items, position_of_key answers the 1-based position
\* of the position list's entry at that index, the item's own position.
C8_EntryAtIndex ==
    SeqParent /\ 0 <= object_path[2].n /\ object_path[2].n < Len(PositionList) =>
        resolved = Returned(PositionList[object_path[2].n + 1].line + 1,
                            PositionList[object_path[2].n + 1].column + 1)

C8_Witness ==
    /\ SeqParent
    /\ object_path[2].n = 0
    /\ Len(PositionList) = 2
    /\ resolved = Returned(PositionList[1].line + 1, PositionList[1].column + 1)
    /\ PositionList[1] # PositionList[2]


----------------------------------------------------------------------------
(* Claims about the splitter, checked under SplitSpec. *)

TheFile == input_files[1]
Data == TheFile.data

\* the strict separator, newline "---" newline, starts at 0-based offset i
SeparatorAt(i) ==
    /\ i + 5 <= Len(Data)
    /\ Data[i + 1] = NL /\ Data[i + 2] = DASH /\ Data[i + 3] = DASH
    /\ Data[i + 4] = DASH /\ Data[i + 5] = NL

HasSeparator == \E i \in 0..Len(Data) : SeparatorAt(i)

FirstSeparator ==
    CHOOSE i \in 0..Len(Data) : SeparatorAt(i) /\ \A j \in 0..(i - 1) : ~SeparatorAt(j)

\* the header text: the bytes up to the separator's first newline, included
HeaderBytes == IF HasSeparator THEN SubSeq(Data, 1, FirstSeparator + 1) ELSE <<>>

\* the script parts of the file that are its main script
MainParts ==
    SelectSeq(script_parts,
              LAMBDA part : part.v.key_name = None /\ part.v.orig_file_name = TheFile.name)

\* the script parts of the file for one header key
KeyParts(key) ==
    SelectSeq(script_parts,
              LAMBDA part : part.v.key_name = Some(key)
                            /\ part.v.orig_file_name = TheFile.name)

FoundDashes ==
    SelectSeq(errors,
              LAMBDA e : e.message = "found \"---\" in YAML header; this prevents aliBuild from parsing this recipe [ali:parse]")

\* the occurrences of "---" in a line, counted without overlap from the left
RECURSIVE Occurrences(_)
Occurrences(line) ==
    IF Find(line, DASHES) = -1 THEN 0
    ELSE 1 + Occurrences(SliceFrom(line, Find(line, DASHES) + 3))

RECURSIVE OccurrencesIn(_)
OccurrencesIn(lines) ==
    IF lines = <<>> THEN 0 ELSE Occurrences(Head(lines)) + OccurrencesIn(Tail(lines))

\* C1: an input without the separator gives an absent header and one main
\* script part whose content is the whole input.
C1_NoSeparatorWholeInput ==
    pc = "parts" /\ ~HasSeparator =>
        /\ Len(header_parts) = 1
        /\ header_parts[1].v.content = PyNone
        /\ Len(MainParts) = 1
        /\ MainParts[1].v.content = Data

\* C4: when the strict separator never matches, there is still one
\* 'found "---"' error for each occurrence of "---" in the input's lines.
C4_StrayDashesWithoutSeparator ==
    pc = "parts" /\ ~HasSeparator =>
        Len(FoundDashes) = OccurrencesIn(SplitLines(Data))

\* the recipe "package: foo", "version: 1.0", "---", "echo hi"
ExampleBytes ==
    <<"p", "a", "c", "k", "a", "g", "e", ":", " ", "f", "o", "o", "\n", "v", "e", "r", "s", "i", "o", "n", ":", " ", "1", ".", "0", "\n", "-", "-", "-", "\n", "e", "c", "h", "o", " ", "h", "i", "\n">>

\* C7: with the strict separator present, the main script part holds the
\* bytes after the separator line's newline, its line offset is the number
\* of newlines of the header text plus 1 and its column offset 0; the
\* example recipe gets line offset 3 and the content "echo hi" newline.
C7_MainScriptAfterSeparator ==
    pc = "parts" /\ HasSeparator =>
        /\ Len(MainParts) = 1
        /\ MainParts[1].v.content = SubSeq(Data, FirstSeparator + 6, Len(Data))
        /\ MainParts[1].v.line_offset
               = Cardinality({i \in 1..Len(HeaderBytes) : HeaderBytes[i] = NL}) + 1
        /\ MainParts[1].v.column_offset = 0
        /\ Data = ExampleBytes =>
               /\ MainParts[1].v.line_offset = 3
               /\ MainParts[1].v.content = <<"e", "c", "h", "o", " ", "h", "i", "\n">>

C7_Witness ==
    /\ pc = "parts"
    /\ Data = ExampleBytes
    /\ Len(MainParts) = 1
    /\ MainParts[1].v.line_offset = 3

\* C9: with the strict separator present, there is one 'found "---"' error
\* for every occurrence of "---" in the header text, several on one line
\* included.
C9_OneErrorPerOccurrence ==
    pc = "parts" /\ HasSeparator =>
        Len(FoundDashes) = OccurrencesIn(SplitLines(HeaderBytes))

\* the parsed header of the file, PyNone when there is none
Header == header_parts[1].v.content

IsScriptKey(key) ==
    /\ IsStr(key)
    /\ EndsWith(key.s, SUFFIX_RECIPE) \/ EndsWith(key.s, SUFFIX_CHECK)

\* the type errors at a place of the file
TypeErrorsAt(line, column) ==
    SelectSeq(errors,
              LAMBDA e : /\ e.level = "error"
                         /\ e.line = line /\ e.column = column
                         /\ e.file_name = TheFile.name
                         /\ \E t \in {"int", "list", "float", "bool", "NoneType", "dict"} :
                               e.message = "script must be a string, not a " \o t
                                               \o " [ali:script-type]")

\* C10: each top-level key ending in _recipe or _check gives, when its
\* value is text, exactly one script part named after it with line offset L
\* and column offset C + 1 for the key's position (L, C), and when its
\* value is not text, one type error and no script part.
C10_EmbeddedScripts ==
    pc = "parts" /\ Header # PyNone =>
        \A i \in 1..Len(Header.items) :
            LET key == Header.items[i].k
                value == Header.items[i].v
                pos == position_of_key(Header, <<key>>)
            IN  IsScriptKey(key) =>
                    /\ pos.exc = ""
                    /\ IF IsStr(value)
                       THEN /\ Len(KeyParts(key.s)) = 1
                            /\ KeyParts(key.s)[1].v.line_offset = pos.line
                            /\ KeyParts(key.s)[1].v.column_offset = pos.column + 1
                            /\ Len(TypeErrorsAt(pos.line, pos.column + 1)) = 0
                       ELSE /\ Len(KeyParts(key.s)) = 0
                            /\ Len(TypeErrorsAt(pos.line, pos.column + 1)) = 1

C10_Witness ==
    /\ pc = "parts"
    /\ Header # PyNone
    /\ In(PyStr(K_incremental_recipe), Header)
    /\ In(PyStr(K_prefer_system_check), Header)
    /\ Len(KeyParts(K_incremental_recipe)) = 1
    /\ KeyParts(K_incremental_recipe)[1].v.column_offset = 3
    /\ Len(KeyParts(K_prefer_system_check)) = 0
    /\ \E e \in {errors[i] : i \in 1..Len(errors)} :
          e.message = "script must be a string, not a list [ali:script-type]"

----------------------------------------------------------------------------
(* Claims about the run, checked under Spec. *)

\* every worker has left checker_wrapper and the queue is drained
WorkersEnded ==
    /\ pc \in {"consume", "returned"}
    /\ \A w \in DOMAIN wpc : wpc[w] \in {"finished", "raised"}
    /\ errors_queue = <<>>

\* what the checkers of the run give when run one after the other, each to
\* its end: the two messages of the wrapper and what the checker yields
SequentialDiagnostics ==
    UNION {{started(run_functions[w]), done(run_functions[w])}
               \cup {checker_runs[w].yields[i] : i \in 1..Len(checker_runs[w].yields)}
           : w \in DOMAIN wpc}

\* C5: every worker enqueues exactly one completion marker, and the set of
\* diagnostics the consumer receives is that of running the same checkers
\* one after the other, in every interleaving of the workers.
C5_OneMarkerPerWorker ==
    WorkersEnded =>
        /\ \A w \in DOMAIN wpc : sentinels_put[w] = 1
        /\ dequeued = SequentialDiagnostics

\* C6: the exit status run_with_args returns is 1 when some diagnostic the
\* consumer took off the queue has level 'error', and 0 when none has.
C6_ExitStatus ==
    pc = "returned" =>
        /\ exit_status \in {Some(0), Some(1)}
        /\ exit_status # Some(0) <=> \E e \in dequeued : e.level = "error"

C6_Witness ==
    /\ pc = "returned"
    /\ exit_status = Some(1)
    /\ Len(run_functions) = 2
    /\ \E e \in dequeued : e.level = "error"
    /\ \E e \in dequeued : e.level = "info"

\* C11: every diagnostic that reaches the consumer has a 1-based place,
\* line >= 1 and column >= 1, whichever component made it.
C11_OneBasedPositions ==
    \A e \in dequeued : e.line >= 1 /\ e.column >= 1

\* some checker of the run raises
SomeCheckerRaises == \E w \in DOMAIN checker_runs : checker_runs[w].raises

\* C14: when a checker raises, only that checker stops: the consumer loop
\* still ends and run_with_args returns an exit status.
C14_RunReturnsWhenACheckerRaises ==
    (pc = "parts" /\ SomeCheckerRaises) ~> (pc = "returned")

\* C15: every error split_files produced is in the stream the consumer
\* receives and counts towards the exit status, whichever checkers run.
C15_SplitErrorsDelivered ==
    pc = "returned" =>
        /\ \A i \in 1..Len(errors) : errors[i] \in dequeued
        /\ (\E i \in 1..Len(errors) : errors[i].level = "error") => exit_status = Some(1)

\* C18: when every checker finishes normally, run_with_args returns only
\* after the consumer took every diagnostic any worker put: none is left in
\* the queue; and a diagnostic is consumed once: one that was taken is not
\* waiting again, and none waits twice.
C18_ConsumerDrainsQueue ==
    ~SomeCheckerRaises =>
        /\ pc = "returned" =>
              /\ errors_queue = <<>>
              /\ dequeued = SequentialDiagnostics
        /\ \A i \in DOMAIN errors_queue :
              errors_queue[i] # None => errors_queue[i][1] \notin dequeued
        /\ \A i \in DOMAIN errors_queue : \A j \in DOMAIN errors_queue :
              (i # j /\ errors_queue[i] # None) => errors_queue[i] # errors_queue[j]

C18_Witness ==
    /\ pc = "returned"
    /\ ~SomeCheckerRaises
    /\ Len(run_functions) = 2
    /\ errors_queue = <<>>
    /\ Cardinality(dequeued) = 6


----------------------------------------------------------------------------
(* check_keys_order on a header that declares package. *)

\* the 0-based place of a declared key among the declared keys
DeclaredIndex(key) ==
    Cardinality({i \in 1..Len(DeclaredKeys) :
                   \E j \in (i + 1)..Len(DeclaredKeys) : DeclaredKeys[j] = PyStr(key)})

Declared(key) == \E i \in 1..Len(DeclaredKeys) : DeclaredKeys[i] = PyStr(key)

\* the errors about one key are one error at the key's place when the key
\* is declared elsewhere than at index `place`, and none otherwise
OrderedAt(key, place, messages) ==
    IF Declared(key) /\ DeclaredIndex(key) # place
    THEN /\ Len(OrderErrors(messages)) = 1
         /\ AtKey(OrderErrors(messages)[1], key)
    ELSE Len(OrderErrors(messages)) = 0

\* C16: for a mapping that declares package, check_keys_order yields a
\* key-order error about package, version or tag exactly when that key is
\* declared and its index among the declared keys is not 0, 1 or 2
\* respectively; the error is at the key's own place moved by the offsets of
\* the part, and the order package, version, tag gives no such error.
C16_TopLevelKeyOrder ==
    (pc = "ordered" /\ Declared(K_package)) =>
        /\ OrderedAt(K_package, 0, PackageMessages)
        /\ OrderedAt(K_version, 1, VersionMessages)
        /\ OrderedAt(K_tag, 2, TagMessages)

\* version, package, tag with non-zero offsets: version and package are
\* reported, tag at index 2 is not
C16_Witness ==
    /\ pc = "ordered"
    /\ DeclaredKeys = <<PyStr(K_version), PyStr(K_package), PyStr(K_tag)>>
    /\ part_offsets = [line |-> 1, column |-> 2]
    /\ Len(lint_errors) = 2

----------------------------------------------------------------------------
(* emit_validation_errors on the error tree of a header. *)

\* the tree walked and the tracked header it is walked against
ErrorTree == validator_errors[1]

IsMarker(segment) == segment \in {ANYOF_0, ANYOF_1}

\* the path leads through mappings and sequences of the tracked header, so
\* that position_of_key finds the parent of its last segment
Addresses(path) == position_of_key(tagged_data, path).exc = ""

\* C12: every path emit_validation_errors hands to position_of_key is made
\* of data fields only, no 'anyof definition N' marker among its segments,
\* and addresses a location of the tracked header.
C12_PathsAddressLocations ==
    pc = "emitted" =>
        \A i \in 1..Len(handed_paths) :
            /\ \A n \in 1..Len(handed_paths[i]) : ~IsMarker(handed_paths[i][n])
            /\ Addresses(handed_paths[i])

\* the number of str leaves of an error tree
RECURSIVE Leaves(_)
RECURSIVE LeavesFrom(_, _)
LeavesFrom(trees, i) ==
    IF i > Len(trees) THEN 0 ELSE Leaves(trees[i]) + LeavesFrom(trees, i + 1)

Leaves(tree) ==
    IF IsStr(tree) THEN 1
    ELSE IF IsDict(tree) \/ IsList(tree) THEN LeavesFrom(subtrees(tree), 1)
    ELSE 0

\* the paths of the str leaves in the order of the walk: a field of a dict
\* extends the path, an element of a list is at the path of the list
RECURSIVE LeafPaths(_, _)
RECURSIVE LeafPathsFrom(_, _, _)
LeafPathsFrom(tree, path, i) ==
    IF i > Len(tree.items) THEN <<>>
    ELSE (IF IsDict(tree) THEN LeafPaths(tree.items[i].v, Append(path, tree.items[i].k))
          ELSE LeafPaths(tree.items[i], path))
         \o LeafPathsFrom(tree, path, i + 1)

LeafPaths(tree, path) ==
    IF IsStr(tree) THEN <<path>>
    ELSE IF IsDict(tree) \/ IsList(tree) THEN LeafPathsFrom(tree, path, 1)
    ELSE <<>>

\* error i is an 'error' at what position_of_key answers for leaf i's path,
\* moved by the offsets of the part
AtLeaf(i) ==
    LET rel == position_of_key(tagged_data, LeafPaths(ErrorTree, <<>>)[i])
    IN  /\ lint_errors[i].level = "error"
        /\ rel.exc = ""
        /\ lint_errors[i].line = rel.line + part_offsets.line
        /\ lint_errors[i].column = rel.column + part_offsets.column

\* C20: emit_validation_errors yields exactly one 'error' per str leaf of
\* the error tree, those after the first included; the elements of a list
\* are reported at the path of the list, and each error is at
\* position_of_key(tracked header, path) plus the offsets of the part.
C20_OneErrorPerLeaf ==
    pc = "emitted" =>
        /\ Len(lint_errors) = Leaves(ErrorTree)
        /\ handed_paths = LeafPaths(ErrorTree, <<>>)
        /\ \A i \in 1..Len(lint_errors) : AtLeaf(i)

\* the same for the walks that position_of_key does not end
EmitReturns == (pc = "emitted" /\ lint_raised # "") \/ C20_OneErrorPerLeaf

----------------------------------------------------------------------------
(* split_files and headerlint over several input files. *)

HeaderPartsOf(name) ==
    {j \in 1..Len(header_parts) : header_parts[j].v.orig_file_name = name}

MainScriptPartsOf(name) ==
    {j \in 1..Len(script_parts) :
        script_parts[j].v.orig_file_name = name /\ script_parts[j].v.key_name = None}

\* C19: split_files on k input files returns k header parts and at least k
\* script parts, one header part and one main script part for each input
\* file, also for two files of the same base name in different directories.
C19_PartsPerInputFile ==
    pc # "split" =>
        /\ Len(header_parts) = Len(input_files)
        /\ Len(script_parts) >= Len(input_files)
        /\ \A i \in 1..Len(input_files) :
              /\ Cardinality(HeaderPartsOf(input_files[i].name)) = 1
              /\ Cardinality(MainScriptPartsOf(input_files[i].name)) = 1

\* the same for input files of different base names
DifferentBaseNames ==
    \A i, j \in 1..Len(input_files) :
        i # j => basename(input_files[i].name) # basename(input_files[j].name)

PartsPerBaseName == DifferentBaseNames => C19_PartsPerInputFile

\* the parts headerlint walks
LintedParts == FileParts(header_parts, script_parts)

\* headerlint took the part from the stream: its 'headerlint got' message
Visited(part) ==
    \E n \in 1..Len(lint_errors) :
        /\ lint_errors[n].level = "info"
        /\ lint_errors[n].message = HEADERLINT_GOT \o part.temp_file_name

\* the error-level diagnostics about the file of a part
DiagnosticsOf(part) ==
    SelectSeq(lint_errors,
              LAMBDA e : e.level = "error" /\ e.file_name = part.orig_file_name)

\* C13: for a header part whose content is absent because its header did
\* not parse, headerlint yields one diagnostic about that file and goes on:
\* every header part after it in the stream is visited too.
C13_ContinuesAfterFailedParse ==
    pc = "linted" =>
        \A i \in 1..Len(header_parts) :
            ~IsDict(LintedParts[i].content) =>
                /\ Visited(LintedParts[i]) => Len(DiagnosticsOf(LintedParts[i])) = 1
                /\ \A j \in (i + 1)..Len(header_parts) : Visited(LintedParts[j])

----------------------------------------------------------------------------
(* scriptlint's errors about colons in prepend-path lines. *)

ColonErrors ==
    SelectSeq(lint_errors,
              LAMBDA e : e.message =
                  "Modules 4 does not allow colons in prepend-path [ali:colons-prepend-path]")

\* the byte at the 0-based offset of the line is a colon at or after
\* 'prepend-path' and not one of the two colons of a "$::" there
Offending(line, offset) ==
    /\ Find(line, PREPEND_PATH) # -1
    /\ offset >= Find(line, PREPEND_PATH)
    /\ offset < Len(line)
    /\ line[offset + 1] = ":"
    /\ \A back \in {1, 2} :
          ~(offset - back >= Find(line, PREPEND_PATH)
            /\ MatchAt(line, DOLLAR_COLONS, offset - back))

\* the error is at the offending colon at that offset of line lineno of the
\* part, moved by the offsets of the part
AtColon(e, part, lineno, offset) ==
    /\ Offending(SplitLines(part.content)[lineno + 1], offset)
    /\ e.file_name = part.orig_file_name
    /\ e.line = 1 + lineno + part.line_offset
    /\ e.column = 1 + offset + part.column_offset

\* C17: every 'colons-prepend-path' error of scriptlint is at an offending
\* colon: its column is 1 + the colon's byte offset in its whole line + the
\* column offset of the part, and its line 1 + the line's index in the part
\* + the line offset of the part, also where 'prepend-path' is not at the
\* first byte of the line.
C17_ColonColumns ==
    pc = "scriptlinted" =>
        \A n \in 1..Len(ColonErrors) :
            \E i \in 1..Len(script_parts) :
                \E lineno \in 0..(Len(SplitLines(script_parts[i].v.content)) - 1) :
                    \E offset \in 0..Len(script_parts[i].v.content) :
                        AtColon(ColonErrors[n], script_parts[i].v, lineno, offset)

\* the same for scripts whose lines have 'prepend-path' at their first byte
\* or not at all
PrependPathFirst ==
    \A i \in 1..Len(script_parts) :
        \A n \in 1..Len(SplitLines(script_parts[i].v.content)) :
            Find(SplitLines(script_parts[i].v.content)[n], PREPEND_PATH) \in {-1, 0}

ColumnsFromLineStart == PrependPathFirst => C17_ColonColumns

====
